---- MODULE Spec2Model ----
(***************************************************************************)
(* Model of src/01/solution_2.py: find_repeated_frequency() and the        *)
(* module-level print().  The file 'input' is a sequence of text lines,    *)
(* each line a sequence of one-character strings.  The file iterator, map  *)
(* and itertools.cycle are lazy: one line is read and parsed per draw of   *)
(* the for loop, and cycle replays its buffer once the file is exhausted.  *)
(*                                                                         *)
(* pc is the statement about to run: "for" (line 5, the next draw), "test" *)
(* (line 6), "return" (the function has returned, line 10 is about to      *)
(* print), "done" (printed, exit status 0), "aborted" (an uncaught         *)
(* exception ended the run, nothing printed, exit status non-zero).        *)
(* adds counts the executions of line 9 and parsed[i] the times line i of  *)
(* the file was read and handed to int(); both are history variables.      *)
(***************************************************************************)
EXTENDS Integers, Sequences, FiniteSets

VARIABLES input, filePos, saved, replay, sum, seen, n, pc, result, output,
          adds, parsed

vars == <<input, filePos, saved, replay, sum, seen, n, pc, result, output,
          adds, parsed>>

\* ------------------------------------------------------------------ bounds

\* Longest generated input file, in lines.
MaxLen == 3

\* Largest absolute value written on a generated line.
MaxVal == 2

\* Cap on the number of loop iterations a run may complete.  A run that
\* returns at all does so within (MaxLen-1) + MaxLen*(MaxLen-1)*MaxVal
\* additions, so the cap cuts only runs that never return.
MaxSteps == MaxLen + MaxLen * (MaxLen - 1) * MaxVal

\* ------------------------------------------------------- text <-> integer

Digits == <<"0", "1", "2", "3", "4", "5", "6", "7", "8", "9">>

IsDigit(c) == \E d \in 1..10 : Digits[d] = c

DigitVal(c) == (CHOOSE d \in 1..10 : Digits[d] = c) - 1

IsSpace(c) == c \in {" ", "\t", "\n"}

\* str.strip() as int() applies it to its argument.
RECURSIVE LStrip(_)
LStrip(s) == IF s # <<>> /\ IsSpace(Head(s)) THEN LStrip(Tail(s)) ELSE s

RECURSIVE RStrip(_)
RStrip(s) ==
    IF s # <<>> /\ IsSpace(s[Len(s)]) THEN RStrip(SubSeq(s, 1, Len(s) - 1))
    ELSE s

Strip(s) == RStrip(LStrip(s))

\* The part of a stripped literal after its optional sign.
Unsigned(s) == IF s # <<>> /\ Head(s) \in {"+", "-"} THEN Tail(s) ELSE s

\* Digits, with single underscores allowed between digits.
IsDigitString(s) ==
    /\ s # <<>>
    /\ IsDigit(s[1])
    /\ IsDigit(s[Len(s)])
    /\ \A i \in 1..Len(s) : IsDigit(s[i]) \/ s[i] = "_"
    /\ \A i \in 1..(Len(s) - 1) : ~(s[i] = "_" /\ s[i + 1] = "_")

RECURSIVE DigitsValue(_)
DigitsValue(s) ==
    IF s = <<>> THEN 0
    ELSE LET c == s[Len(s)]
             rest == SubSeq(s, 1, Len(s) - 1)
         IN  IF c = "_" THEN DigitsValue(rest)
             ELSE 10 * DigitsValue(rest) + DigitVal(c)

\* TRUE iff int(line) returns; otherwise int(line) raises ValueError.
CanParse(line) == IsDigitString(Unsigned(Strip(line)))

\* int(line), base 10.
int(line) ==
    LET s == Strip(line)
        v == DigitsValue(Unsigned(s))
    IN  IF Head(s) = "-" THEN 0 - v ELSE v

\* Python objects a function can return.
NoneObj == [type |-> "NoneType", val |-> 0]

IntObj(v) == [type |-> "int", val |-> v]

RECURSIVE NatStr(_)
NatStr(v) ==
    IF v < 10 THEN <<Digits[v + 1]>>
    ELSE Append(NatStr(v \div 10), Digits[(v % 10) + 1])

\* str(obj) as print() applies it.
Str(obj) ==
    IF obj.type = "NoneType" THEN <<"N", "o", "n", "e">>
    ELSE IF obj.val < 0 THEN <<"-">> \o NatStr(0 - obj.val)
    ELSE NatStr(obj.val)

\* ------------------------------------------------------------ input files

\* A line as a puzzle input writes it: explicit sign, or a bare 0.
Line(v) ==
    IF v < 0 THEN <<"-">> \o NatStr(0 - v) \o <<"\n">>
    ELSE IF v > 0 THEN <<"+">> \o NatStr(v) \o <<"\n">>
    ELSE <<"0", "\n">>

ValidLines == {Line(v) : v \in (0 - MaxVal)..MaxVal}

\* Lines int() rejects: an empty line, a word, a sign with no digits.
MalformedLines == {<<"\n">>, <<"x", "\n">>, <<"+", "\n">>}

Lines == ValidLines \cup MalformedLines

File(vs) == [i \in 1..Len(vs) |-> Line(vs[i])]

\* The worked inputs of the puzzle statement, with their answers.
Worked ==
    << [in |-> File(<<1, -2, 3, 1>>),      out |-> 2],
       [in |-> File(<<1, -1>>),            out |-> 0],
       [in |-> File(<<3, 3, 4, -2, -4>>),  out |-> 10],
       [in |-> File(<<-6, 3, 8, 5, -6>>),  out |-> 5],
       [in |-> File(<<7, 7, -2, -7, -4>>), out |-> 14] >>

Inputs ==
    UNION {[1..len -> Lines] : len \in 0..MaxLen}
        \cup {Worked[i].in : i \in 1..Len(Worked)}

\* ------------------------------------------------------------------ state

\* The state when the for statement of line 5 first asks cycle for a value:
\* the file is open and nothing has been read from it.
Init ==
    /\ input \in Inputs
    /\ filePos = 0
    /\ saved = <<>>
    /\ replay = 0
    /\ sum = 0
    /\ seen = {}
    /\ n = 0
    /\ pc = "for"
    /\ result = NoneObj
    /\ output = <<>>
    /\ adds = 0
    /\ parsed = [i \in 1..Len(input) |-> 0]

\* DrawParse reading eagerly, as list(map(int, open('input'))) would: the
\* first draw reads and parses the whole file into the buffer.
DrawParseEager ==
    /\ pc = "for"
    /\ filePos < Len(input)
    /\ \A i \in 1..Len(input) : CanParse(input[i])
    /\ n' = int(input[1])
    /\ saved' = [i \in 1..Len(input) |-> int(input[i])]
    /\ filePos' = Len(input)
    /\ replay' = 1 % Len(input)
    /\ parsed' = [i \in 1..Len(input) |-> parsed[i] + 1]
    /\ pc' = "test"
    /\ UNCHANGED <<input, sum, seen, result, output, adds>>

\* Line 5, first pass: the file yields its next line, int() parses it, cycle
\* buffers the value and hands it to the loop.
DrawParse ==
    /\ pc = "for"
    /\ filePos < Len(input)
    /\ CanParse(input[filePos + 1])
    /\ n' = int(input[filePos + 1])
    /\ saved' = Append(saved, n')
    /\ filePos' = filePos + 1
    /\ parsed' = [parsed EXCEPT ![filePos + 1] = @ + 1]
    /\ pc' = "test"
    /\ UNCHANGED <<input, replay, sum, seen, result, output, adds>>

\* DrawValueError swallowing the exception: the malformed line is skipped.
DrawValueErrorSkip ==
    /\ pc = "for"
    /\ filePos < Len(input)
    /\ ~CanParse(input[filePos + 1])
    /\ filePos' = filePos + 1
    /\ parsed' = [parsed EXCEPT ![filePos + 1] = @ + 1]
    /\ pc' = "for"
    /\ UNCHANGED <<input, saved, replay, sum, seen, n, result, output, adds>>

\* Line 5, first pass: int() raises ValueError on the line just read; nothing
\* catches it and the interpreter exits with a traceback.
DrawValueError ==
    /\ pc = "for"
    /\ filePos < Len(input)
    /\ ~CanParse(input[filePos + 1])
    /\ filePos' = filePos + 1
    /\ parsed' = [parsed EXCEPT ![filePos + 1] = @ + 1]
    /\ pc' = "aborted"
    /\ UNCHANGED <<input, saved, replay, sum, seen, n, result, output, adds>>

\* DrawReplay without the advance of the replay position: every later draw
\* yields the first buffered value.
DrawReplayStuck ==
    /\ pc = "for"
    /\ filePos = Len(input)
    /\ saved # <<>>
    /\ n' = saved[1]
    /\ pc' = "test"
    /\ UNCHANGED <<input, filePos, saved, replay, sum, seen, result, output,
                   adds, parsed>>

\* DrawReplay re-reading the source: each later pass reads and parses the
\* file's lines again instead of replaying the buffer.
DrawReplayReread ==
    /\ pc = "for"
    /\ filePos = Len(input)
    /\ saved # <<>>
    /\ n' = int(input[replay + 1])
    /\ parsed' = [parsed EXCEPT ![replay + 1] = @ + 1]
    /\ replay' = (replay + 1) % Len(saved)
    /\ pc' = "test"
    /\ UNCHANGED <<input, filePos, saved, sum, seen, result, output, adds>>

\* DrawReplay over an unordered buffer: a later draw yields any buffered
\* value.
DrawReplayAny ==
    /\ pc = "for"
    /\ filePos = Len(input)
    /\ saved # <<>>
    /\ \E i \in 1..Len(saved) : n' = saved[i]
    /\ replay' = (replay + 1) % Len(saved)
    /\ pc' = "test"
    /\ UNCHANGED <<input, filePos, saved, sum, seen, result, output, adds,
                   parsed>>

\* Line 5, later passes: the file is exhausted and cycle replays its buffer.
DrawReplay ==
    /\ pc = "for"
    /\ filePos = Len(input)
    /\ saved # <<>>
    /\ n' = saved[replay + 1]
    /\ replay' = (replay + 1) % Len(saved)
    /\ pc' = "test"
    /\ UNCHANGED <<input, filePos, saved, sum, seen, result, output, adds,
                   parsed>>

\* DrawStop letting StopIteration escape as an error.
DrawStopRaise ==
    /\ pc = "for"
    /\ filePos = Len(input)
    /\ saved = <<>>
    /\ pc' = "aborted"
    /\ UNCHANGED <<input, filePos, saved, replay, sum, seen, n, result, output,
                   adds, parsed>>

\* Line 5 on an empty file: cycle of an empty iterable is itself empty, the
\* for loop ends without running its body and the function returns None.
DrawStop ==
    /\ pc = "for"
    /\ filePos = Len(input)
    /\ saved = <<>>
    /\ result' = NoneObj
    /\ pc' = "return"
    /\ UNCHANGED <<input, filePos, saved, replay, sum, seen, n, output, adds,
                   parsed>>

\* Lines 6-7: the current sum was seen before.
Return ==
    /\ pc = "test"
    /\ sum \in seen
    /\ result' = IntObj(sum)
    /\ pc' = "return"
    /\ UNCHANGED <<input, filePos, saved, replay, sum, seen, n, output, adds,
                   parsed>>

\* Accumulate with lines 8 and 9 swapped: the sum is advanced before it is
\* recorded.
AccumulateAddFirst ==
    /\ pc = "test"
    /\ sum \notin seen
    /\ adds < MaxSteps
    /\ sum' = sum + n
    /\ seen' = seen \cup {sum'}
    /\ adds' = adds + 1
    /\ pc' = "for"
    /\ UNCHANGED <<input, filePos, saved, replay, n, result, output, parsed>>

\* Accumulate without line 8: the sum is never recorded.
AccumulateForget ==
    /\ pc = "test"
    /\ sum \notin seen
    /\ adds < MaxSteps
    /\ sum' = sum + n
    /\ adds' = adds + 1
    /\ pc' = "for"
    /\ UNCHANGED <<input, filePos, saved, replay, seen, n, result, output,
                   parsed>>

\* Lines 6, 8, 9: the current sum is new; record it and add the drawn value.
Accumulate ==
    /\ pc = "test"
    /\ sum \notin seen
    /\ adds < MaxSteps
    /\ seen' = seen \cup {sum}
    /\ sum' = sum + n
    /\ adds' = adds + 1
    /\ pc' = "for"
    /\ UNCHANGED <<input, filePos, saved, replay, n, result, output, parsed>>

\* Line 10: print the function's return value; the script then ends.
PrintResult ==
    /\ pc = "return"
    /\ output' = Append(output, Str(result))
    /\ pc' = "done"
    /\ UNCHANGED <<input, filePos, saved, replay, sum, seen, n, result, adds,
                   parsed>>

Next ==
    \/ DrawParse
    \/ DrawValueError
    \/ DrawReplay
    \/ DrawStop
    \/ Return
    \/ Accumulate
    \/ PrintResult

Spec == Init /\ [][Next]_vars

\* The interpreter is a single thread that always takes its next step.
FairSpec == Spec /\ WF_vars(Next)

\* ------------------------------------------------- the summation process

\* L: the number of lines of the input.
L == Len(input)

\* Every line of the input is a valid signed integer.
WellFormed == \A i \in 1..L : CanParse(input[i])

\* a(i): the integer on line i (1-based).
a(i) == int(input[i])

\* <<s_0, ..., s_k>> with s_0 = 0 and s_j = s_(j-1) + a[(j-1) mod L],
\* the cumulative sums over the input repeated cyclically.
RECURSIVE CumSums(_)
CumSums(k) ==
    IF k = 0 THEN <<0>>
    ELSE LET p == CumSums(k - 1)
         IN  Append(p, p[k] + a(((k - 1) % L) + 1))

\* s_j repeats one of s_0 .. s_(j-1); c is <<s_0, ..., s_k>> with k >= j.
RepeatsAt(c, j) == \E i \in 1..j : c[i] = c[j + 1]

\* ------------------------------------------------------------------ C1

\* C1: for a non-empty input of valid signed integers on which the routine
\* returns, the returned value is s_j for the smallest j >= 1 such that
\* s_j is among s_0 .. s_(j-1), and the routine returned at that j.
C1_FirstRepeat ==
    (pc \in {"return", "done"} /\ L > 0 /\ WellFormed) =>
        LET c == CumSums(MaxSteps)
            first == CHOOSE j \in 1..MaxSteps :
                        /\ RepeatsAt(c, j)
                        /\ \A h \in 1..(j - 1) : ~RepeatsAt(c, h)
        IN  /\ \E j \in 1..MaxSteps : RepeatsAt(c, j)
            /\ result = IntObj(c[first + 1])
            /\ adds = first

\* A run that returned a non-zero sum found in a later pass over the input.
C1_Witness ==
    /\ pc = "done"
    /\ WellFormed
    /\ L = 3
    /\ adds > L
    /\ result.val # 0

\* ------------------------------------------------------------------ C2

\* C2: on each of the five worked inputs the run ends, and it ends having
\* returned and printed the stated value (2, 0, 10, 5 and 14).
C2_Worked ==
    /\ [](\A w \in 1..Len(Worked) :
            (input = Worked[w].in /\ pc \in {"return", "done"}) =>
                /\ result = IntObj(Worked[w].out)
                /\ pc = "done" => output = <<Str(IntObj(Worked[w].out))>>)
    /\ <>((\E w \in 1..Len(Worked) : input = Worked[w].in) => pc = "done")

\* The run on the fifth worked input has printed 14.
C2_Witness ==
    /\ pc = "done"
    /\ input = Worked[5].in
    /\ output = << <<"1", "4">> >>

\* ------------------------------------------------------------------ C3

Min(x, y) == IF x <= y THEN x ELSE y

HasMalformed == \E i \in 1..L : ~CanParse(input[i])

\* The 1-based position of the first malformed line.
FirstBad == CHOOSE i \in 1..L :
                ~CanParse(input[i]) /\ \A h \in 1..(i - 1) : CanParse(input[h])

\* Some s_j repeats an earlier sum at a test made before line FirstBad is
\* drawn: the tests after 0 .. FirstBad-2 additions precede that draw.
RepeatBeforeBad ==
    LET c == CumSums(FirstBad - 1)
    IN  \E j \in 1..(FirstBad - 2) : RepeatsAt(c, j)

\* C3 as stated: a malformed line anywhere in the file means the run never
\* returns, never prints and never ends successfully.
C3_Original ==
    HasMalformed => (pc \notin {"return", "done"} /\ output = <<>>)

\* C3 amended: when the first malformed line is reached before any repeated
\* sum is found, the run fails with a parse error, never printing and never
\* ending successfully; when a sum repeats at a test made before that line
\* is drawn, the line is never parsed and the run prints and ends
\* successfully.
C3_Amended ==
    /\ [](HasMalformed =>
            IF RepeatBeforeBad
            THEN pc # "aborted" /\ parsed[FirstBad] = 0
            ELSE pc \notin {"return", "done"} /\ output = <<>>)
    /\ <>(HasMalformed =>
            IF RepeatBeforeBad THEN pc = "done" ELSE pc = "aborted")

\* A run aborted on its last line after two sums were recorded.
C3_Witness ==
    /\ pc = "aborted"
    /\ L >= 3
    /\ filePos = L
    /\ adds = L - 1
    /\ output = <<>>

\* ------------------------------------------------------------------ C4

\* The first repeated sum is s_k with k < L, judged on lines 1..k alone.
EarlyRepeat(k) ==
    /\ k \in 1..(L - 1)
    /\ \A i \in 1..k : CanParse(input[i])
    /\ LET c == CumSums(k)
       IN  RepeatsAt(c, k) /\ \A h \in 1..(k - 1) : ~RepeatsAt(c, h)

\* C4 as stated: when the first repeat is s_k with k < L, the routine
\* returns having drawn no element beyond a[0..k-1].
C4_Original ==
    \A k \in 1..(L - 1) :
        (EarlyRepeat(k) /\ pc \in {"return", "done"}) =>
            /\ filePos <= k
            /\ \A i \in (k + 1)..L : parsed[i] = 0

\* C4 amended: when the first repeat is s_k with k < L, the routine draws
\* exactly the k+1 elements a[0..k] (the draw of a[k] precedes the test that
\* finds the repeat, and a malformed a[k] aborts the run); a[k+1..L-1] are
\* never read or parsed, and a return gives s_k after k additions.
C4_Amended ==
    \A k \in 1..(L - 1) :
        EarlyRepeat(k) =>
            /\ filePos <= k + 1
            /\ \A i \in (k + 2)..L : parsed[i] = 0
            /\ replay = 0
            /\ pc \in {"return", "done"} =>
                    /\ filePos = k + 1
                    /\ parsed[k + 1] = 1
                    /\ adds = k
                    /\ result = IntObj(CumSums(k)[k + 1])
            /\ pc = "aborted" => (filePos = k + 1 /\ ~CanParse(input[k + 1]))

\* A run that printed after one addition, its malformed third line unread.
C4_Witness ==
    /\ pc = "done"
    /\ L = 3
    /\ adds = 1
    /\ filePos = 2
    /\ ~CanParse(input[3])

\* ------------------------------------------------------------------ C5

\* C5 as stated: in every run that prints a result, each line of the input
\* has been read and parsed exactly once.
C5_Original ==
    pc = "done" => \A i \in 1..L : parsed[i] = 1

\* C5 amended: lines are read and parsed in file order, each at most once;
\* a run that returns after k additions has read and parsed exactly the
\* first min(k+1, L) lines, each once; the buffer holds the values parsed
\* so far, and the draw after k additions yields a[k mod L], so later
\* passes replay the first pass in order without re-reading.
C5_Amended ==
    /\ \A i \in 1..L : parsed[i] = (IF i <= filePos THEN 1 ELSE 0)
    /\ (pc \in {"return", "done"} /\ L > 0) => filePos = Min(adds + 1, L)
    /\ pc # "aborted" => saved = [i \in 1..filePos |-> a(i)]
    /\ pc = "test" => n = a((adds % L) + 1)

\* A run that printed in its third or a later pass over a file of two or
\* more lines.
C5_Witness ==
    /\ pc = "done"
    /\ L >= 2
    /\ adds > 2 * L
    /\ \A i \in 1..L : parsed[i] = 1

\* ------------------------------------------------------------------ C6

\* The outcome of a run as a function of the input alone; c is
\* <<s_0, ..., s_k>> and the next event is the draw after k additions.
RECURSIVE Outcome(_, _)
Outcome(k, c) ==
    IF L = 0 THEN [kind |-> "none", val |-> 0]
    ELSE IF k < L /\ ~CanParse(input[k + 1]) THEN [kind |-> "error", val |-> 0]
    ELSE IF RepeatsAt(c, k) THEN [kind |-> "value", val |-> c[k + 1]]
    ELSE IF k = MaxSteps THEN [kind |-> "running", val |-> 0]
    ELSE Outcome(k + 1, Append(c, c[k + 1] + a((k % L) + 1)))

\* At most one statement of the script can execute next.
AtMostOneEnabled ==
    LET e == << ENABLED DrawParse, ENABLED DrawValueError, ENABLED DrawReplay,
                ENABLED DrawStop, ENABLED Return, ENABLED Accumulate,
                ENABLED PrintResult >>
    IN  Cardinality({i \in 1..Len(e) : e[i]}) <= 1

\* C6: a run's states and outcome are determined by its input: at most one
\* step is possible in any state, (sum, seen) after k additions are the
\* function (s_k, {s_0..s_(k-1)}) of the input and k, and the way the run
\* ends (value printed, failure, or no return) is a function of the input.
C6_Deterministic ==
    /\ AtMostOneEnabled
    /\ LET c == CumSums(adds)
       IN  sum = c[adds + 1] /\ seen = {c[i] : i \in 1..adds}
    /\ ~ENABLED Next =>
          LET o == Outcome(0, <<0>>)
          IN  CASE pc = "done" ->
                     /\ o.kind \in {"none", "value"}
                     /\ output = << Str(IF o.kind = "none" THEN NoneObj
                                        ELSE IntObj(o.val)) >>
                [] pc = "aborted" -> o.kind = "error" /\ output = <<>>
                [] OTHER -> o.kind = "running" /\ output = <<>>

\* A run on well-formed input still looking for a repeat at the step cap.
C6_Witness ==
    /\ pc = "test"
    /\ L = 3
    /\ WellFormed
    /\ adds = MaxSteps
    /\ sum \notin seen

\* ------------------------------------------------------------------ C7

\* C7: at every membership test after k additions, seen is exactly
\* {s_0..s_(k-1)}, k pairwise distinct values, and sum is s_k; seen only
\* grows, by one element per iteration that does not return; the loop
\* returns at the first test that finds sum in seen, and only there.
C7_SeenInvariant ==
    /\ [](pc = "test" =>
            LET c == CumSums(adds)
            IN  /\ seen = {c[i] : i \in 1..adds}
                /\ Cardinality(seen) = adds
                /\ sum = c[adds + 1])
    /\ [][/\ seen \subseteq seen'
          /\ (pc = "test" /\ pc' = "for") =>
                (sum \notin seen /\ seen' = seen \cup {sum})
          /\ (pc = "test" /\ sum \in seen) =>
                (pc' = "return" /\ result' = IntObj(sum))
          /\ (pc' = "return" /\ L > 0) => (pc = "test" /\ sum \in seen)
          /\ ~(pc = "test" /\ pc' = "for") => seen' = seen]_vars

\* A membership test in a later pass that finds the sum among four or more
\* distinct recorded sums.
C7_Witness ==
    /\ pc = "test"
    /\ sum \in seen
    /\ adds >= 4
    /\ adds > L
    /\ Cardinality(seen) = adds

\* ------------------------------------------------------------------ C8

NoneText == <<"N", "o", "n", "e">>

\* C8 as stated: on an empty input the run never returns from the routine
\* and never prints.
C8_Original ==
    L = 0 => (pc \notin {"return", "done"} /\ output = <<>>)

\* C8 amended: on an empty input the cyclic draw yields no value, the loop
\* body never runs (no membership test, nothing recorded or added), the
\* routine returns None, and the run prints "None" and ends successfully.
C8_Amended ==
    /\ [](L = 0 =>
            /\ pc \in {"for", "return", "done"}
            /\ adds = 0 /\ seen = {} /\ sum = 0
            /\ result = NoneObj
            /\ pc = "done" => output = <<NoneText>>)
    /\ <>(L = 0 => pc = "done")

\* The run on the empty input has printed None.
C8_Witness ==
    /\ L = 0
    /\ pc = "done"
    /\ output = <<NoneText>>

\* ------------------------------------------------------------------ C9

\* C9 as stated: every input line has been read and parsed before the first
\* membership test, insertion into seen and addition to sum.
C9_Original ==
    (pc = "test" \/ seen # {} \/ adds > 0) => filePos = L

\* C9 amended: reading is interleaved with accumulation.  Only the first
\* line is read and parsed before the first membership test; line i
\* (0-based) of the first pass is read and parsed after i additions, just
\* before the test that follows them; a parse error on line i is raised
\* after i tests, insertions and additions.
C9_Amended ==
    /\ pc = "for" => filePos = Min(adds, L)
    /\ pc = "test" => filePos = Min(adds + 1, L)
    /\ pc = "aborted" =>
          /\ adds = filePos - 1
          /\ Cardinality(seen) = adds
          /\ ~CanParse(input[filePos])

\* The second membership test of a three-line file, the third line unread.
C9_Witness ==
    /\ pc = "test"
    /\ L = 3
    /\ adds = 1
    /\ filePos = 2
    /\ parsed[3] = 0

\* ------------------------------------------------------------------ C10

Abs(x) == IF x < 0 THEN 0 - x ELSE x

\* The one-pass total S.
PassTotal == CumSums(L)[L + 1]

\* S = 0, or two distinct first-pass prefix sums p_i, p_j (i, j in 0..L-1)
\* differ by a multiple of S.
TermCond ==
    LET p == CumSums(L)
        m == Abs(p[L + 1])
    IN  \/ m = 0
        \/ \E i, j \in 1..L : i # j /\ (p[i] - p[j]) % m = 0

\* C10: for well-formed non-empty input the routine eventually returns if
\* and only if TermCond holds; with S = 0 it returns after at most L+1
\* draws (L additions); when TermCond fails it never returns and seen gains
\* one element per iteration for as long as the run is followed.
C10_Termination ==
    /\ []((WellFormed /\ L > 0) =>
            /\ pc # "aborted"
            /\ pc \in {"return", "done"} => TermCond
            /\ PassTotal = 0 => adds <= L
            /\ (pc = "for" /\ ~TermCond) => Cardinality(seen) = adds)
    /\ <>((WellFormed /\ L > 0) =>
            \/ pc = "done"
            \/ pc = "test" /\ Cardinality(seen) = MaxSteps /\ ~TermCond)

\* A run that returned in a later pass although no two first-pass prefix
\* sums are equal: the repeat comes from a non-zero multiple of S.
C10_Witness ==
    /\ WellFormed
    /\ L >= 2
    /\ pc = "done"
    /\ PassTotal # 0
    /\ adds > L
    /\ LET p == CumSums(L) IN \A i, j \in 1..L : i # j => p[i] # p[j]

====
